---------------------------- MODULE Spec2Model ----------------------------
(***************************************************************************)
(* A model of spike-bloom (src/src/lib.rs): a simulated network of nodes,  *)
(* each holding net_fact maps (sets of 32-byte hashes), two pairwise       *)
(* set-reconciliation functions (bloom filter, hash of hashes), the hub    *)
(* pairing that applies one of them to the first map of every node, the    *)
(* intra-node sync, the test_run loop that repeats                         *)
(* shuffle / net_sync_fn / sync_network until the network is consistent,   *)
(* and test_suite, which runs warm-up and measured trials.                 *)
(*                                                                         *)
(* A Hash is modelled as a small natural number (the hashes a network      *)
(* draws are numbered as they appear); a Map (HashSet<Hash>) as a set; a   *)
(* Node and a Network as                                                   *)
(* sequences.  What the code draws at random is a nondeterministic choice: *)
(* the generated hashes, the permutations of shuffle, the iteration order  *)
(* of a HashSet (its RandomState differs from set to set) and the false    *)
(* positives of a bloom filter (its sip keys are drawn per filter).        *)
(***************************************************************************)
EXTENDS Integers, Sequences, FiniteSets, TLC

(***************************************************************************)
(* Bounds of the model.                                                    *)
(***************************************************************************)
\* the function harness draws hashes from 1..MaxDigest
MaxDigest == 3
\* data_count ranges over 0..MaxDataCount
MaxDataCount == 1
\* net_fact ranges over 1..MaxNetFact
MaxNetFact == 3
\* Spec follows every network of up to FullNetFact nodes
FullNetFact == 2
\* a trial on more than FaultyHashes hashes is followed to the end of the
\* round in which a false positive first keeps a hash back
FaultyHashes == 4
\* TrioSpec follows the networks of up to MaxNetFact nodes in which at most
\* MaxRedraws draws gave a hash drawn before
MaxRedraws == 1
\* rounds a trial of Spec may run before the model stops following it
MaxRounds == 5
\* rounds a trial of TrioSpec may run
TrioRounds == 3
\* rounds a trial of LongSpec may run
LongRounds == 51
\* maps in the network handed to sync_network by the function harness
MaxHarnessMaps == 4
\* WideSpec: data_count ranges over 0..WideDataCount and net_fact over
\* 1..WideNetFact
WideDataCount == 4
WideNetFact == 2
\* rounds a trial of LiveSpec may run
LiveRounds == 5
\* SuiteSpec: test_suite is called with data_count in 0..SuiteDataCount and
\* net_fact in 1..SuiteNetFact
SuiteDataCount == 1
SuiteNetFact == 2
\* rounds a trial of SuiteSpec may run
SuiteRounds == 3
\* trials of a suite that are followed beyond their first round
SuiteLongTrials == 1
\* draws of a suite, all its trials together, that may give a hash drawn
\* before
SuiteRedraws == 1
\* LiveSpec also follows the networks of MaxNetFact nodes on up to
\* LiveHashes hashes
LiveHashes == 3

(***************************************************************************)
(* Program constants.                                                      *)
(***************************************************************************)
\* type Hash = Arc<[u8; 32]>: h.len()
HashLen == 32
\* const BLOOM_OVERHEAD = 0 + 8 + 4 + (8 * 4)
BLOOM_OVERHEAD == 44

VARIABLES
    data_count,  \* test_run's argument
    net_fact,    \* test_run's argument
    strategy,    \* test_run's net_sync_fn: "bloom" or "rehash"
    network,     \* test_run's network: a sequence of nodes (sequences of maps)
    first_node,  \* the hub detached by network.remove(0), <<>> when attached
    idx,         \* the position of the running `for node in network.iter_mut()`
    net_tx,      \* byte_tx of the running ..._sync_first_map_to_others
    count,       \* test_run's count
    byte_tx,     \* test_run's byte_tx
    pc,          \* the position in test_run
    orig,        \* history: the union of all hashes of the generated network
    gen_flags,   \* history: what the consistency checks say of the generated network
    rounds,      \* history: the operations executed by the current round, in order
    checks,      \* history: number of consistency checks the loop has executed
    call,        \* function harness: the call made
    ret,         \* function harness: what it returned
    ledger,      \* history: the pairwise calls of the running hub pairing,
                 \* and the cost and number of all pairwise calls so far
    suite        \* test_suite's position, vectors and output

vars == <<data_count, net_fact, strategy, network, first_node, idx, net_tx,
          count, byte_tx, pc, orig, gen_flags, rounds, checks, call, ret,
          ledger, suite>>

trial_vars == <<data_count, net_fact, strategy, network, first_node, idx, net_tx,
                count, byte_tx, pc, orig, gen_flags, rounds, checks,
                ledger>>

\* the hashes of the function harness
Digests == 1..MaxDigest

(***************************************************************************)
(* Helpers.                                                                *)
(***************************************************************************)
Range(s) == {s[i] : i \in DOMAIN s}

\* the orders in which a HashSet holding S may iterate
Orders(S) == {s \in [1..Cardinality(S) -> S] : \A i, j \in DOMAIN s : s[i] = s[j] => i = j}

\* the hashes of S in ascending order
RECURSIVE ascending(_)
ascending(S) ==
    IF S = {} THEN <<>>
    ELSE LET least == CHOOSE x \in S : \A y \in S : x <= y
         IN  <<least>> \o ascending(S \ {least})

\* two of the orders in which a HashSet holding S may iterate, different
\* when S holds two hashes or more.  A pairwise call depends on the two
\* orders only through whether the two sequences are equal, so these stand
\* for Orders(S) where the maps are too large to enumerate all orders.
TwoOrders(S) ==
    LET up == ascending(S)
    IN  {up, [i \in DOMAIN up |-> up[Len(up) + 1 - i]]}

\* the permutations a slice shuffle may apply to n elements
Perms(n) == {p \in [1..n -> 1..n] : \A i, j \in 1..n : p[i] = p[j] => i = j}

UnionOfNode(node) == UNION Range(node)

UnionOfNetwork(net) == UNION {UnionOfNode(net[i]) : i \in DOMAIN net}

\* all maps of the node hold the same hashes
NodeConsistent(node) == \A j, k \in DOMAIN node : node[j] = node[k]

\* all maps of all nodes hold the same hashes
NetworkConsistent(net) ==
    \A i, k \in DOMAIN net : \A j \in DOMAIN net[i], l \in DOMAIN net[k] :
        net[i][j] = net[k][l]


(***************************************************************************)
(* The pure functions of lib.rs.                                           *)
(***************************************************************************)

\* gen_hash: blake2b of the bytes d, here of a sequence of hashes.  The hash
\* primitive is taken to be collision free: the digest is the term
\* <<"blake2b", d>>, so two sequences have the same digest exactly when
\* they are the same sequence.
gen_hash(d) == <<"blake2b", d>>

\* a hash_of_hashes that hashes the number of hashes only
hash_of_hashes_len(hashes) == gen_hash(<<Len(hashes)>>)

\* hash_of_hashes: the hashes are concatenated in the order the iterator
\* yields them, and the concatenation is hashed.
hash_of_hashes(hashes) == gen_hash(hashes)

\* rand_hash draws 32 random bytes.  The model names the hashes of a
\* network 1, 2, ... as they are drawn: a draw gives a hash that a map
\* generated before holds, or the next number.  Hashes that exactly the
\* same maps hold cannot be told apart, so of those a draw gives the
\* lowest: every network of hashes has exactly one such naming.

\* hashes x and y are held by the same maps of prev
same_maps(prev, x, y) == \A k \in DOMAIN prev : (x \in prev[k]) <=> (y \in prev[k])

\* the hashes of prev, grouped by the maps that hold them
classes(prev) ==
    {{y \in UnionOfNode(prev) : same_maps(prev, x, y)} : x \in UnionOfNode(prev)}

\* the n lowest hashes of C
lowest(C, n) == {x \in C : Cardinality({y \in C : y < x}) < n}

\* the sets of at most budget hashes drawn again out of the classes Cs
RECURSIVE redraws(_, _)
redraws(Cs, budget) ==
    IF Cs = {} THEN {{}}
    ELSE LET C == CHOOSE c \in Cs : TRUE
             most == IF Cardinality(C) < budget THEN Cardinality(C) ELSE budget
         IN  UNION {{lowest(C, n) \cup r : r \in redraws(Cs \ {C}, budget - n)} :
                        n \in 0..most}

\* a gen_map that draws once more (for _ in 0..=data_count), every draw
\* giving a new hash
gen_map_one_more(dc, prev) ==
    LET used == Cardinality(UnionOfNode(prev))
    IN  {{h \in 1..(used + dc + 1) : h > used}}

\* gen_map: data_count draws of rand_hash inserted into a HashSet, after the
\* maps prev have been generated.  A draw may give a hash drawn before (old,
\* or one of this map), so the map holds between 1 and data_count hashes
\* (none for 0), m of them new: the hashes old and used + 1 .. used + m.
gen_map(dc, prev) ==
    LET used == Cardinality(UnionOfNode(prev))
    IN  UNION {{{h \in 1..(used + m) : h \in old \/ h > used} :
                    m \in (IF old = {} /\ dc > 0 THEN 1 ELSE 0)..(dc - Cardinality(old))} :
                   old \in redraws(classes(prev), dc)}

\* the draws of gen_map that gave a hash drawn before, when it returned map
redrawn(dc, prev, map) == dc - Cardinality(map \ UnionOfNode(prev))

\* n maps generated one after the other, at most budget draws giving a hash
\* drawn before
RECURSIVE gen_maps(_, _, _, _)
gen_maps(dc, n, prev, budget) ==
    IF n = 0 THEN {<<>>}
    ELSE UNION {{<<map>> \o rest :
                     rest \in gen_maps(dc, n - 1, Append(prev, map),
                                       budget - redrawn(dc, prev, map))} :
                    map \in {m \in gen_map(dc, prev) : redrawn(dc, prev, m) <= budget}}

\* gen_node: net_fact maps
gen_node(dc, nf, prev, budget) == gen_maps(dc, nf, prev, budget)

\* the draws of gen_node that gave a hash drawn before, when it returned node
redrawn_node(dc, prev, node) ==
    dc * Len(node) - Cardinality(UnionOfNode(node) \ UnionOfNode(prev))

\* n nodes generated one after the other
RECURSIVE gen_nodes(_, _, _, _, _)
gen_nodes(dc, nf, n, prev, budget) ==
    IF n = 0 THEN {<<>>}
    ELSE UNION {{<<node>> \o rest :
                     rest \in gen_nodes(dc, nf, n - 1, prev \o node,
                                        budget - redrawn_node(dc, prev, node))} :
                    node \in gen_node(dc, nf, prev, budget)}

\* gen_network: net_fact nodes; budget bounds the draws that give a hash
\* drawn before
gen_network(dc, nf, budget) == gen_nodes(dc, nf, nf, <<>>, budget)

is_node_consistent(node) ==
    LET first_map == node[1]
    IN  \A i \in DOMAIN node : ~(first_map # node[i])

\* an is_network_consistent that compares the first map of every node only
is_network_consistent_first_maps(net) ==
    LET first_map == net[1][1]
    IN  \A i \in DOMAIN net : ~(first_map # net[i][1])

is_network_consistent(net) ==
    LET first_map == net[1][1]
    IN  \A i \in DOMAIN net : \A j \in DOMAIN net[i] : ~(first_map # net[i][j])

\* node.shuffle(&mut rng) with the permutation p
shuffle_node(node, p) == [j \in DOMAIN node |-> node[p[j]]]

\* shuffle_network: every node is shuffled (ps[i] permutes node i), then the
\* network is (q permutes the nodes).
shuffle_network(net, ps, q) ==
    LET shuffled == [i \in DOMAIN net |-> shuffle_node(net[i], ps[i])]
    IN  [i \in DOMAIN net |-> shuffled[q[i]]]

\* every network shuffle_network can leave: the same set as
\* {shuffle_network(net, ps, q)} over all ps and q, computed node by node
shuffle_outcomes(net) ==
    LET per_node == [i \in DOMAIN net |->
                        {shuffle_node(net[i], p) : p \in Perms(Len(net[i]))}]
        shuffled == {f \in [DOMAIN net -> UNION Range(per_node)] :
                        \A i \in DOMAIN net : f[i] \in per_node[i]}
    IN  {[i \in DOMAIN net |-> f[q[i]]] : f \in shuffled, q \in Perms(Len(net))}

\* the first loop of sync_node: every map is drained into uber_set
RECURSIVE uber_set_from(_, _, _)
uber_set_from(node, i, uber_set) ==
    IF i > Len(node) THEN uber_set
    ELSE uber_set_from(node, i + 1, uber_set \cup node[i])

\* a sync_node that drains the first map only
sync_node_first_only(node) ==
    LET uber_set == node[1]
    IN  [j \in DOMAIN node |-> uber_set]

\* a sync_node whose second loop stops before the last map
sync_node_skip_last(node) ==
    LET uber_set == uber_set_from(node, 1, {})
    IN  [j \in DOMAIN node |-> IF j < Len(node) THEN uber_set ELSE node[j]]

\* sync_node: every map becomes a clone of uber_set
sync_node(node) ==
    LET uber_set == uber_set_from(node, 1, {})
    IN  [j \in DOMAIN node |-> uber_set]

\* a sync_network that leaves the first node as it is
\* (network.iter_mut().skip(1))
sync_network_skip_first(net) ==
    [i \in DOMAIN net |-> IF i = 1 THEN net[i] ELSE sync_node(net[i])]

sync_network(net) == [i \in DOMAIN net |-> sync_node(net[i])]

\* The size of a filter is computed in f64.  A natural number beyond the
\* machine word is a sequence of digits of 13 bits, lowest first and
\* without leading zeros; an f64 is a mantissa m of at most 53 bits (54
\* when rounding carried) and an exponent e: the number m * 2^e.  The
\* numbers of this computation are all positive or all negative, so the
\* signs are left out.
low(n) == n % 8192

high(n) == n \div 8192

digit(a, i) == IF i \in DOMAIN a THEN a[i] ELSE 0

\* a without its leading zeros
trim(a) ==
    SubSeq(a, 1, Cardinality({i \in DOMAIN a : \E j \in DOMAIN a : j >= i /\ a[j] # 0}))

\* the digits of a machine word
digits(n) == trim(<<low(n), low(high(n)), high(high(n))>>)

RECURSIVE value(_)
value(a) == IF a = <<>> THEN 0 ELSE a[1] + 8192 * value(Tail(a))

\* the digits of the number whose i-th digit place holds columns[i], a
\* number that need not be a digit, plus carry
RECURSIVE carried(_, _)
carried(columns, carry) ==
    IF columns = <<>> THEN digits(carry)
    ELSE <<low(columns[1] + carry)>>
         \o carried(Tail(columns), high(columns[1] + carry))

max_len(a, b) == IF Len(a) < Len(b) THEN Len(b) ELSE Len(a)

add(a, b) == trim(carried([i \in 1..max_len(a, b) |-> digit(a, i) + digit(b, i)], 0))

\* a - b for a >= b
sub(a, b) == trim(carried([i \in 1..Len(a) |-> a[i] - digit(b, i)], 0))

less(a, b) ==
    \/ Len(a) < Len(b)
    \/ /\ Len(a) = Len(b)
       /\ \E i \in DOMAIN a : /\ a[i] < b[i]
                              /\ \A j \in DOMAIN a : j > i => a[j] = b[j]

\* the sum of the products of the digits of a and b that fall on place k,
\* over the digits 1 to i of a
RECURSIVE column(_, _, _, _)
column(a, b, k, i) ==
    IF i = 0 THEN 0
    ELSE digit(a, i) * digit(b, k + 1 - i) + column(a, b, k, i - 1)

mul(a, b) ==
    IF a = <<>> \/ b = <<>> THEN <<>>
    ELSE trim(carried([k \in 1..(Len(a) + Len(b) - 1) |-> column(a, b, k, Len(a))], 0))

\* 2^k
two_to(k) == [i \in 1..(k \div 13 + 1) |-> IF i = k \div 13 + 1 THEN 2^(k % 13) ELSE 0]

\* the number of bits of a
bit_len(a) ==
    IF a = <<>> THEN 0
    ELSE 13 * (Len(a) - 1) + Cardinality({k \in 0..12 : 2^k <= a[Len(a)]})

\* a * 2^k
shl(a, k) == mul(a, two_to(k))

\* a \div 2^k
shr(a, k) ==
    LET whole == k \div 13
        part  == k % 13
    IN  trim([i \in 1..(Len(a) - whole) |->
                  (a[i + whole] \div 2^part)
                  + (digit(a, i + whole + 1) % 2^part) * 2^(13 - part)])

\* a % 2^k
low_bits(a, k) ==
    LET whole == k \div 13
    IN  IF Len(a) <= whole THEN a
        ELSE trim([i \in 1..(whole + 1) |->
                       IF i = whole + 1 THEN a[i] % 2^(k % 13) ELSE a[i]])

\* the digit g with g * d <= t < (g + 1) * d, for t < 8192 * d and a d whose
\* highest digit has its highest bit set: the quotient of the two highest
\* digit places of t by the highest digit of d is g, g + 1 or g + 2
quotient_digit(t, d) ==
    LET top   == (digit(t, Len(d) + 1) * 8192 + digit(t, Len(d))) \div d[Len(d)]
        guess == IF top > 8191 THEN 8191 ELSE top
    IN  CHOOSE g \in {guess - 2, guess - 1, guess} :
            /\ g >= 0
            /\ ~less(t, mul(d, digits(g)))
            /\ g = guess \/ less(t, mul(d, digits(g + 1)))

\* long division of the digits 1 to i of n, below a remainder rem < d left
\* by the higher digits; the quotient has i digit places.  Digit place i:
\* the remainder so far with digit i of n appended is t, g is its quotient
\* by d, and the division goes on below with what g * d leaves of t.
RECURSIVE long_division(_, _, _, _)
place_digit(n, d, i, t, g) ==
    LET lower == long_division(n, d, i - 1,
                               IF g = 0 THEN t ELSE sub(t, mul(d, digits(g))))
    IN  [quot |-> lower.quot \o <<g>>, rem |-> lower.rem]

divide_digit(n, d, i, t) ==
    place_digit(n, d, i, t, IF less(t, d) THEN 0 ELSE quotient_digit(t, d))

long_division(n, d, i, rem) ==
    IF i = 0 THEN [quot |-> <<>>, rem |-> rem]
    ELSE divide_digit(n, d, i, trim(<<n[i]>> \o rem))

\* the number of digit places of the quotient of num by den: the highest
\* Len(den) - 1 digits of num are smaller than den
places(num, den) == IF Len(num) < Len(den) THEN 0 ELSE Len(num) - Len(den) + 1

\* quotient and remainder of num by a den whose highest digit has its
\* highest bit set
divide(num, den) ==
    long_division(num, den, places(num, den),
                  SubSeq(num, places(num, den) + 1, Len(num)))

\* the result of a division of numbers that were both multiplied by 2^scale
unscaled(cut, scale) == [quot |-> trim(cut.quot), rem |-> shr(cut.rem, scale)]

scaled_divmod(n, d, scale) == unscaled(divide(shl(n, scale), shl(d, scale)), scale)

\* quotient and remainder of n by d # 0: both are scaled so that the highest
\* digit of d has its highest bit set, which leaves the quotient as it is
divmod(n, d) == scaled_divmod(n, d, 13 * Len(d) - bit_len(d))

\* the f64 nearest to m * 2^e (plus something below the lowest bit of m
\* when inexact): round to 53 bits, ties to even
round_f64(m, e, inexact) ==
    IF bit_len(m) <= 53 THEN [m |-> m, e |-> e]
    ELSE LET s    == bit_len(m) - 53
             kept == shr(m, s)
             rest == low_bits(m, s)
             half == two_to(s - 1)
             up   == \/ less(half, rest)
                     \/ rest = half /\ (inexact \/ kept[1] % 2 = 1)
         IN  [m |-> IF up THEN add(kept, <<1>>) ELSE kept, e |-> e + s]

\* x * y in f64
mul_f64(x, y) == round_f64(mul(x.m, y.m), x.e + y.e, FALSE)

\* the f64 nearest to the quotient q.quot * 2^e, which is inexact when the
\* division left a remainder
rounded_quotient(q, e) == round_f64(q.quot, e, q.rem # <<>>)

\* x / y in f64 from the quotient of x.m * 2^k by y.m
quotient_f64(x, y, k) == rounded_quotient(divmod(shl(x.m, k), y.m), x.e - y.e - k)

\* x / y in f64: the quotient is taken to at least 55 bits, which with the
\* remainder decide the rounding
div_f64(x, y) == quotient_f64(x, y, 55 + bit_len(y.m) - bit_len(x.m))

\* f64::ceil and `as usize`
ceil_f64(x) ==
    IF x.e >= 0 THEN value(shl(x.m, x.e))
    ELSE value(shr(x.m, -x.e)) + (IF low_bits(x.m, -x.e) = <<>> THEN 0 ELSE 1)

\* f64::consts::LN_2 = 0.6931471805599453 = 6243314768165359 / 2^53
LN_2 ==
    [m |-> add(mul(digits(62433147), digits(100000000)), digits(68165359)),
     e |-> -53]

\* f64::ln(TGT_FP) for TGT_FP = 0.01: -4.605170185988091
\* = -5184960683398421 / 2^50
ln_TGT_FP ==
    [m |-> add(mul(digits(51849606), digits(100000000)), digits(83398421)),
     e |-> -50]

\* let log2_2 = LN_2 * LN_2;
log2_2 == mul_f64(LN_2, LN_2)

\* -8.0 * log2_2, without its sign
eight_log2_2 == mul_f64([m |-> digits(8), e |-> 0], log2_2)

\* Bloom::compute_bitmap_size(items_count, fp_p):
\*   ((items_count as f64) * f64::ln(fp_p) / (-8.0 * log2_2)).ceil() as usize
compute_bitmap_size(items_count) ==
    ceil_f64(div_f64(mul_f64([m |-> digits(items_count), e |-> 0], ln_TGT_FP),
                     eight_log2_2))

\* the sizes of the filters of the maps the specifications reach, for 1 to
\* WideDataCount * WideNetFact * WideNetFact items, computed once
bitmap_sizes ==
    <<>> \o [len \in 1..(WideDataCount * WideNetFact * WideNetFact) |->
                 compute_bitmap_size(len)]

\* bloom.bitmap().len() of the filter Bloom::new_for_fp_rate(len, TGT_FP)
\* builds: bitmap_size bytes
bitmap_len(len) ==
    IF len \in DOMAIN bitmap_sizes THEN bitmap_sizes[len] ELSE compute_bitmap_size(len)

\* gen_bloom_for_map: a filter sized for map.len() items in which every hash
\* of map is set.  check() answers true for every hash set (no false
\* negative) and for the false positives fp the sip keys happen to give.
gen_bloom_for_map(map, fp) ==
    [bitmap_len |-> bitmap_len(Cardinality(map)), recognised |-> map \cup fp]

\* Bloom::new_for_fp_rate asserts items_count > 0
gen_bloom_panics(map) == Cardinality(map) = 0

\* a check() of a filter none of whose bits got set
bloom_check_unset(bloom, h) == FALSE

bloom_check(bloom, h) == h \in bloom.recognised

\* a bloom_filter_sync_two_maps in which a map is replaced by the hashes it
\* receives instead of being extended by them
bloom_filter_sync_two_maps_replace(map1, map2, fp1, fp2) ==
    LET bloom1 == gen_bloom_for_map(map1, fp1)
        bloom2 == gen_bloom_for_map(map2, fp2)
        sent12 == {h \in map1 : ~bloom_check(bloom2, h)}
        new2   == sent12
        sent21 == {h \in new2 : ~bloom_check(bloom1, h)}
        new1   == sent21
    IN  [map1 |-> new1, map2 |-> new2,
         sent12 |-> sent12, sent21 |-> sent21,
         byte_tx |-> HashLen * Cardinality(sent12) + HashLen * Cardinality(sent21)
                     + (BLOOM_OVERHEAD + bloom1.bitmap_len)
                     + (BLOOM_OVERHEAD + bloom2.bitmap_len)]

\* a bloom_filter_sync_two_maps whose first loop moves the hashes out of map1
\* (map1.drain(), as sync_node does) instead of cloning them
bloom_filter_sync_two_maps_drain(map1, map2, fp1, fp2) ==
    LET bloom1 == gen_bloom_for_map(map1, fp1)
        bloom2 == gen_bloom_for_map(map2, fp2)
        sent12 == {h \in map1 : ~bloom_check(bloom2, h)}
        new2   == map2 \cup sent12
        sent21 == {h \in new2 : ~bloom_check(bloom1, h)}
        new1   == sent21
    IN  [map1 |-> new1, map2 |-> new2,
         sent12 |-> sent12, sent21 |-> sent21,
         byte_tx |-> HashLen * Cardinality(sent12) + HashLen * Cardinality(sent21)
                     + (BLOOM_OVERHEAD + bloom1.bitmap_len)
                     + (BLOOM_OVERHEAD + bloom2.bitmap_len)]

\* a bloom_filter_sync_two_maps whose second loop checks bloom2 again
bloom_filter_sync_two_maps_same_filter(map1, map2, fp1, fp2) ==
    LET bloom1 == gen_bloom_for_map(map1, fp1)
        bloom2 == gen_bloom_for_map(map2, fp2)
        sent12 == {h \in map1 : ~bloom_check(bloom2, h)}
        new2   == map2 \cup sent12
        sent21 == {h \in new2 : ~bloom_check(bloom2, h)}
        new1   == map1 \cup sent21
    IN  [map1 |-> new1, map2 |-> new2,
         sent12 |-> sent12, sent21 |-> sent21,
         byte_tx |-> HashLen * Cardinality(sent12) + HashLen * Cardinality(sent21)
                     + (BLOOM_OVERHEAD + bloom1.bitmap_len)
                     + (BLOOM_OVERHEAD + bloom2.bitmap_len)]

\* bloom_filter_sync_two_maps; sent12 and sent21 are the hashes for which
\* byte_tx += h.len() ran in the first and in the second loop.
bloom_filter_sync_two_maps(map1, map2, fp1, fp2) ==
    LET bloom1 == gen_bloom_for_map(map1, fp1)
        bloom2 == gen_bloom_for_map(map2, fp2)
        sent12 == {h \in map1 : ~bloom_check(bloom2, h)}
        new2   == map2 \cup sent12
        sent21 == {h \in new2 : ~bloom_check(bloom1, h)}
        new1   == map1 \cup sent21
    IN  [map1 |-> new1, map2 |-> new2,
         sent12 |-> sent12, sent21 |-> sent21,
         byte_tx |-> HashLen * Cardinality(sent12) + HashLen * Cardinality(sent21)
                     + (BLOOM_OVERHEAD + bloom1.bitmap_len)
                     + (BLOOM_OVERHEAD + bloom2.bitmap_len)]

\* a rehash_filter_sync_two_maps that charges the hash list of map2 as well
rehash_filter_sync_two_maps_both_lists(map1, map2, order1, order2) ==
    LET hash1  == hash_of_hashes(order1)
        hash2  == hash_of_hashes(order2)
        differ == hash1 # hash2
        sent12 == IF differ THEN {h \in map1 : ~(h \in map2)} ELSE {}
        new2   == map2 \cup sent12
        sent21 == IF differ THEN {h \in new2 : ~(h \in map1)} ELSE {}
        new1   == map1 \cup sent21
    IN  [map1 |-> new1, map2 |-> new2,
         sent12 |-> sent12, sent21 |-> sent21,
         byte_tx |-> 32 + 32
                     + (IF differ THEN Cardinality(map1) * 32 + Cardinality(map2) * 32
                        ELSE 0)
                     + HashLen * Cardinality(sent12) + HashLen * Cardinality(sent21)]

\* a rehash_filter_sync_two_maps without its second loop: node 2 forwards
\* nothing
rehash_filter_sync_two_maps_one_way(map1, map2, order1, order2) ==
    LET hash1  == hash_of_hashes(order1)
        hash2  == hash_of_hashes(order2)
        differ == hash1 # hash2
        sent12 == IF differ THEN {h \in map1 : ~(h \in map2)} ELSE {}
        new2   == map2 \cup sent12
    IN  [map1 |-> map1, map2 |-> new2,
         sent12 |-> sent12, sent21 |-> {},
         byte_tx |-> 32 + 32
                     + (IF differ THEN Cardinality(map1) * 32 ELSE 0)
                     + HashLen * Cardinality(sent12)]

\* rehash_filter_sync_two_maps; order1 and order2 are the orders in which
\* map1.iter() and map2.iter() yield the hashes.
rehash_filter_sync_two_maps(map1, map2, order1, order2) ==
    LET hash1  == hash_of_hashes(order1)
        hash2  == hash_of_hashes(order2)
        differ == hash1 # hash2
        sent12 == IF differ THEN {h \in map1 : ~(h \in map2)} ELSE {}
        new2   == map2 \cup sent12
        sent21 == IF differ THEN {h \in new2 : ~(h \in map1)} ELSE {}
        new1   == map1 \cup sent21
    IN  [map1 |-> new1, map2 |-> new2,
         sent12 |-> sent12, sent21 |-> sent21,
         byte_tx |-> 32 + 32
                     + (IF differ THEN Cardinality(map1) * 32 ELSE 0)
                     + HashLen * Cardinality(sent12) + HashLen * Cardinality(sent21)]


(***************************************************************************)
(* test_run, one action per step.                                          *)
(***************************************************************************)
Idle == [fn |-> "none"]

\* no hub pairing is running and no pairwise call has been made
NoLedger == [before |-> <<>>, log |-> <<>>, paid |-> 0, pairs |-> 0,
             last_faulty |-> 0]

\* test_suite is not running
NoSuite == [pc |-> "none"]

\* the size of the largest map of net
LargestMap(net) ==
    LET sizes == {Cardinality(net[i][j]) : i \in DOMAIN net, j \in DOMAIN net[1]}
    IN  CHOOSE n \in sizes : \A k \in sizes : k <= n

\* test_run is at line 233 and has drawn network
Started ==
    /\ first_node = <<>>
    /\ idx = 0
    /\ net_tx = 0
    /\ count = 0
    /\ byte_tx = 0
    /\ pc = "generated"
    /\ orig = UnionOfNetwork(network)
    /\ gen_flags = [network_consistent |-> NetworkConsistent(network),
                    node_consistent |->
                        \E i \in DOMAIN network : NodeConsistent(network[i]),
                    largest_map |-> LargestMap(network)]
    /\ rounds = <<>>
    /\ checks = 0
    /\ call = Idle
    /\ ret = Idle
    /\ ledger = NoLedger
    /\ suite = NoSuite

\* line 233: let mut network = gen_network(data_count, net_fact), for
\* data_count up to max_dc and net_fact up to max_nf, with at most
\* max_redraws draws that gave a hash drawn before.  net_fact is at least
\* 1: is_network_consistent unwraps the first map of the first node.  The
\* network is any of gen_network(data_count, net_fact, max_redraws), taken
\* node by node.
Generated(max_dc, max_nf, max_redraws) ==
    /\ data_count \in 0..max_dc
    /\ net_fact \in 1..max_nf
    /\ strategy \in {"bloom", "rehash"}
    /\ \E first \in gen_node(data_count, net_fact, <<>>, max_redraws) :
       \E rest \in gen_nodes(data_count, net_fact, net_fact - 1, first,
                             max_redraws - redrawn_node(data_count, <<>>, first)) :
           network = <<first>> \o rest
    /\ Started

\* every network of up to FullNetFact nodes
Init == Generated(MaxDataCount, FullNetFact, MaxDataCount * FullNetFact * FullNetFact)

\* line 236: assert!(!is_network_consistent(&network))
AssertGenerated ==
    /\ pc = "generated"
    /\ IF is_network_consistent(network)
       THEN pc' = "panicked" /\ idx' = idx
       ELSE pc' = "sync_nodes" /\ idx' = 1
    /\ UNCHANGED <<data_count, net_fact, strategy, network, first_node, net_tx,
                   count, byte_tx, orig, gen_flags, rounds, checks, call, ret,
                   ledger, suite>>

\* lines 239-248, one iteration: assert the node inconsistent, sync_node,
\* assert it consistent
InitialSyncNode ==
    /\ pc = "sync_nodes"
    /\ idx <= Len(network)
    /\ IF is_node_consistent(network[idx])
       THEN pc' = "panicked" /\ UNCHANGED <<network, idx>>
       ELSE /\ network' = [network EXCEPT ![idx] = sync_node(network[idx])]
            /\ IF is_node_consistent(network'[idx])
               THEN pc' = pc /\ idx' = idx + 1
               ELSE pc' = "panicked" /\ idx' = idx
    /\ UNCHANGED <<data_count, net_fact, strategy, first_node, net_tx,
                   count, byte_tx, orig, gen_flags, rounds, checks, call, ret,
                   ledger, suite>>

\* line 251: assert!(!is_network_consistent(&network)), then lines 253-255
AssertConsolidated ==
    /\ pc = "sync_nodes"
    /\ idx > Len(network)
    /\ IF is_network_consistent(network)
       THEN pc' = "panicked"
       ELSE pc' = "loop"
    /\ count' = 0
    /\ byte_tx' = 0
    /\ UNCHANGED <<data_count, net_fact, strategy, network, first_node, idx, net_tx,
                   orig, gen_flags, rounds, checks, call, ret,
                   ledger, suite>>

\* line 260: shuffle_network(&mut network)
ShuffleStep ==
    /\ pc = "loop"
    /\ network' \in shuffle_outcomes(network)
    /\ pc' = "net_sync"
    /\ rounds' = <<"shuffle">>
    /\ UNCHANGED <<data_count, net_fact, strategy, first_node, idx, net_tx,
                   byte_tx, orig, gen_flags, checks, call, ret,
                   ledger, suite>>

\* the model follows the trial into its next round: the loop has no
\* ceiling, the model follows it for cap rounds, and on more than
\* FaultyHashes hashes for as long as no false positive has kept a hash back
followed(cap) ==
    /\ count < cap
    /\ Cardinality(orig) <= FaultyHashes \/ ledger.last_faulty = 0

\* lines 257-260: count += 1; shuffle_network(&mut network)
RoundShuffle(cap) ==
    /\ followed(cap)
    /\ count' = count + 1
    /\ ShuffleStep

\* a hub pairing that detaches the last node (network.pop())
RemoveHubLast ==
    /\ pc = "net_sync"
    /\ first_node' = network[Len(network)]
    /\ network' = SubSeq(network, 1, Len(network) - 1)
    /\ idx' = 1
    /\ net_tx' = 0
    /\ pc' = "pairing"
    /\ ledger' = [ledger EXCEPT !.before = network, !.log = <<>>]
    /\ UNCHANGED <<data_count, net_fact, strategy, count, byte_tx, orig,
                   gen_flags, rounds, checks, call, ret,
                   suite>>

\* lines 154-158 and 209-212: let mut first_node = network.remove(0)
RemoveHub ==
    /\ pc = "net_sync"
    /\ first_node' = network[1]
    /\ network' = Tail(network)
    /\ idx' = 1
    /\ net_tx' = 0
    /\ pc' = "pairing"
    /\ ledger' = [ledger EXCEPT !.before = network, !.log = <<>>]
    /\ UNCHANGED <<data_count, net_fact, strategy, count, byte_tx, orig,
                   gen_flags, rounds, checks, call, ret,
                   suite>>

\* the pairwise call that returned r left a hash with one side only: a
\* false positive kept it back
kept_back(r) == r.map1 # r.map2

\* an iteration that reconciles the node with a copy of the hub's first map
\* (the hub itself is left as it was)
PairApplyToCopy(r) ==
    /\ network' = [network EXCEPT ![idx][1] = r.map1]
    /\ first_node' = first_node
    /\ net_tx' = net_tx + r.byte_tx
    /\ idx' = idx + 1
    /\ pc' = pc
    /\ ledger' = [ledger EXCEPT !.log =
                      Append(@, [left |-> network[idx][1], right |-> first_node[1],
                                 out |-> r]),
                                !.last_faulty = IF kept_back(r) THEN count ELSE @]

\* an iteration that writes the reconciled map over every map of the node
PairApplyAllMaps(r) ==
    /\ network' = [network EXCEPT ![idx] = [j \in DOMAIN @ |-> r.map1]]
    /\ first_node' = [first_node EXCEPT ![1] = r.map2]
    /\ net_tx' = net_tx + r.byte_tx
    /\ idx' = idx + 1
    /\ pc' = pc
    /\ ledger' = [ledger EXCEPT !.log =
                      Append(@, [left |-> network[idx][1], right |-> first_node[1],
                                 out |-> r]),
                                !.last_faulty = IF kept_back(r) THEN count ELSE @]

\* what one iteration of `for node in network.iter_mut()` does with the
\* result r of the pairwise call (node's first map, hub's first map)
PairApply(r) ==
    /\ network' = [network EXCEPT ![idx][1] = r.map1]
    /\ first_node' = [first_node EXCEPT ![1] = r.map2]
    /\ net_tx' = net_tx + r.byte_tx
    /\ idx' = idx + 1
    /\ pc' = pc
    /\ ledger' = [ledger EXCEPT !.log =
                      Append(@, [left |-> network[idx][1], right |-> first_node[1],
                                 out |-> r]),
                                !.last_faulty = IF kept_back(r) THEN count ELSE @]

\* the false positives a filter built from map may give for the hashes of
\* asked, the only ones it is asked about: any of those it does not hold
false_positives(asked, map) == SUBSET (asked \ map)

\* lines 160-162, one iteration: bloom2 is asked about the hashes of map1,
\* bloom1 about those of map2 and the hashes map1 just sent
PairBloom ==
    /\ pc = "pairing"
    /\ strategy = "bloom"
    /\ idx <= Len(network)
    /\ LET map1 == network[idx][1]
           map2 == first_node[1]
       IN  IF gen_bloom_panics(map1) \/ gen_bloom_panics(map2)
           THEN pc' = "panicked"
                /\ UNCHANGED <<network, first_node, net_tx, idx, ledger>>
           ELSE \E fp1 \in false_positives(map2 \cup map1, map1),
                   fp2 \in false_positives(map1, map2) :
                    PairApply(bloom_filter_sync_two_maps(map1, map2, fp1, fp2))
    /\ UNCHANGED <<data_count, net_fact, strategy, count, byte_tx, orig,
                   gen_flags, rounds, checks, call, ret,
                   suite>>

\* lines 214-216, one iteration
PairRehash ==
    /\ pc = "pairing"
    /\ strategy = "rehash"
    /\ idx <= Len(network)
    /\ LET map1 == network[idx][1]
           map2 == first_node[1]
       IN  \E order1 \in TwoOrders(map1), order2 \in TwoOrders(map2) :
               PairApply(rehash_filter_sync_two_maps(map1, map2, order1, order2))
    /\ UNCHANGED <<data_count, net_fact, strategy, count, byte_tx, orig,
                   gen_flags, rounds, checks, call, ret,
                   suite>>

\* the byte_tx the pairwise calls of log returned, added up
RECURSIVE SumOfCosts(_)
SumOfCosts(log) ==
    IF log = <<>> THEN 0
    ELSE SumOfCosts(SubSeq(log, 1, Len(log) - 1)) + log[Len(log)].out.byte_tx

\* lines 165-167 and 219-221: network.push(first_node)
PushStep ==
    /\ pc = "pairing"
    /\ idx > Len(network)
    /\ network' = Append(network, first_node)
    /\ first_node' = <<>>
    /\ pc' = "sync_network"
    /\ rounds' = Append(rounds, "net_sync")
    /\ UNCHANGED <<data_count, net_fact, strategy, idx, net_tx, count, orig,
                   gen_flags, checks, call, ret,
                   suite>>

\* a test_run that keeps the cost of the last hub pairing only
\* (byte_tx = net_sync_fn(&mut network))
PushHubOverwrite ==
    /\ byte_tx' = net_tx
    /\ ledger' = [ledger EXCEPT !.paid = @ + SumOfCosts(ledger.log),
                                !.pairs = @ + Len(ledger.log)]
    /\ PushStep

\* lines 165-167 and 219-221: network.push(first_node); byte_tx is returned
\* and line 263 adds it to test_run's byte_tx
PushHub ==
    /\ byte_tx' = byte_tx + net_tx
    /\ ledger' = [ledger EXCEPT !.paid = @ + SumOfCosts(ledger.log),
                                !.pairs = @ + Len(ledger.log)]
    /\ PushStep

\* line 266: sync_network(&mut network)
SyncNetwork ==
    /\ pc = "sync_network"
    /\ network' = sync_network(network)
    /\ pc' = "check"
    /\ ledger' = [ledger EXCEPT !.before = <<>>, !.log = <<>>]
    /\ rounds' = Append(rounds, "sync_network")
    /\ UNCHANGED <<data_count, net_fact, strategy, first_node, idx, net_tx,
                   count, byte_tx, orig, gen_flags, checks, call, ret,
                   suite>>

\* a check that breaks whenever every node is consistent
loop_breaks_node_consistent(net) == \A i \in DOMAIN net : is_node_consistent(net[i])

\* line 269: whether the loop breaks
loop_breaks(net) == is_network_consistent(net)

\* lines 269-271: if is_network_consistent(&network) { break }
CheckStep ==
    /\ pc = "check"
    /\ pc' = IF loop_breaks(network) THEN "done" ELSE "loop"
    /\ rounds' = Append(rounds, "check")
    /\ UNCHANGED <<data_count, net_fact, strategy, network, first_node, idx, net_tx,
                   count, byte_tx, orig, gen_flags, call, ret,
                   ledger, suite>>

\* lines 269-274: the check; on break the tuple (count, byte_tx, elapsed)
\* is returned
CheckConsistent ==
    /\ checks' = checks + 1
    /\ CheckStep

Round(cap) ==
    \/ RoundShuffle(cap)
    \/ RemoveHub
    \/ PairBloom
    \/ PairRehash
    \/ PushHub
    \/ SyncNetwork
    \/ CheckConsistent

Next ==
    \/ AssertGenerated
    \/ InitialSyncNode
    \/ AssertConsolidated
    \/ Round(MaxRounds)

Spec == Init /\ [][Next]_vars



\* the networks of up to MaxNetFact nodes in which at most MaxRedraws draws
\* gave a hash drawn before
TrioInit == Generated(MaxDataCount, MaxNetFact, MaxRedraws)

\* the trial on the networks of TrioInit, followed for TrioRounds rounds
TrioNext ==
    \/ AssertGenerated
    \/ InitialSyncNode
    \/ AssertConsolidated
    \/ Round(TrioRounds)

TrioSpec == TrioInit /\ [][TrioNext]_vars

\* the same trial on wider maps: up to WideDataCount draws for each of the
\* maps of up to WideNetFact nodes.  The networks are those in which no
\* draw gave a hash drawn before and those in which all draws of a map gave
\* the same hash (every map holds one hash, as for data_count = 1).
WideInit ==
    /\ data_count \in 0..WideDataCount
    /\ net_fact \in 1..WideNetFact
    /\ strategy \in {"bloom", "rehash"}
    /\ network \in gen_network(data_count, net_fact, 0)
                   \cup gen_network(IF data_count = 0 THEN 0 ELSE 1, net_fact,
                                    net_fact * net_fact)
    /\ Started

WideSpec == WideInit /\ [][Next]_vars

\* the networks of Init and those of TrioInit
LongInit == Init \/ TrioInit

\* the trial followed for LongRounds rounds
LongNext ==
    \/ AssertGenerated
    \/ InitialSyncNode
    \/ AssertConsolidated
    \/ Round(LongRounds)

LongSpec == LongInit /\ [][LongNext]_vars

\* the trial followed for LiveRounds rounds
LiveNext ==
    \/ AssertGenerated
    \/ InitialSyncNode
    \/ AssertConsolidated
    \/ Round(LiveRounds)

\* the networks of Init, and the networks of MaxNetFact nodes whose draws
\* gave at most LiveHashes different hashes
LiveInit ==
    \/ Init
    \/ /\ Generated(MaxDataCount, MaxNetFact,
                    MaxDataCount * MaxNetFact * MaxNetFact)
       /\ net_fact = MaxNetFact
       /\ Cardinality(orig) <= LiveHashes

\* test_run runs on while it has a step to take
LiveSpec ==
    /\ LiveInit
    /\ [][LiveNext]_vars
    /\ WF_vars(LiveNext)

(***************************************************************************)
(* The function harness: one call of a function of lib.rs on arguments     *)
(* drawn from the bounded sets, recorded in call, with its result in ret.  *)
(* A behaviour makes one call.                                             *)
(***************************************************************************)
FnInit ==
    /\ data_count = 0
    /\ net_fact = 0
    /\ strategy = "none"
    /\ network = <<>>
    /\ first_node = <<>>
    /\ idx = 0
    /\ net_tx = 0
    /\ count = 0
    /\ byte_tx = 0
    /\ pc = "harness"
    /\ orig = {}
    /\ gen_flags = [network_consistent |-> FALSE, node_consistent |-> FALSE,
                    largest_map |-> 0]
    /\ rounds = <<>>
    /\ checks = 0
    /\ call = Idle
    /\ ret = Idle
    /\ ledger = NoLedger
    /\ suite = NoSuite

CallBloomSyncTwoMaps ==
    /\ pc = "harness"
    /\ call = Idle
    /\ \E map1 \in SUBSET Digests, map2 \in SUBSET Digests :
       \E fp1 \in SUBSET (Digests \ map1), fp2 \in SUBSET (Digests \ map2) :
           /\ call' = [fn |-> "bloom_filter_sync_two_maps",
                       map1 |-> map1, map2 |-> map2, fp1 |-> fp1, fp2 |-> fp2]
           /\ ret' = IF gen_bloom_panics(map1) \/ gen_bloom_panics(map2)
                     THEN [panicked |-> TRUE]
                     ELSE [panicked |-> FALSE,
                           out |-> bloom_filter_sync_two_maps(map1, map2, fp1, fp2)]
    /\ UNCHANGED <<trial_vars, suite>>

CallRehashSyncTwoMaps ==
    /\ pc = "harness"
    /\ call = Idle
    /\ \E map1 \in SUBSET Digests, map2 \in SUBSET Digests :
       \E order1 \in Orders(map1), order2 \in Orders(map2) :
           /\ call' = [fn |-> "rehash_filter_sync_two_maps",
                       map1 |-> map1, map2 |-> map2,
                       order1 |-> order1, order2 |-> order2]
           /\ ret' = [panicked |-> FALSE,
                      out |-> rehash_filter_sync_two_maps(map1, map2, order1, order2)]
    /\ UNCHANGED <<trial_vars, suite>>

CallSyncNode ==
    /\ pc = "harness"
    /\ call = Idle
    /\ \E n \in 1..MaxNetFact : \E node \in [1..n -> SUBSET Digests] :
           /\ call' = [fn |-> "sync_node", node |-> node]
           /\ ret' = [node |-> sync_node(node),
                      consistent |-> is_node_consistent(sync_node(node))]
    /\ UNCHANGED <<trial_vars, suite>>

CallSyncNetwork ==
    /\ pc = "harness"
    /\ call = Idle
    /\ \E n \in 1..MaxHarnessMaps, m \in 1..MaxHarnessMaps :
           /\ n * m <= MaxHarnessMaps
           /\ \E net \in [1..n -> [1..m -> SUBSET Digests]] :
                  /\ call' = [fn |-> "sync_network", network |-> net]
                  /\ ret' = [network |-> sync_network(net)]
    /\ UNCHANGED <<trial_vars, suite>>

FnNext ==
    \/ CallBloomSyncTwoMaps
    \/ CallRehashSyncTwoMaps
    \/ CallSyncNode
    \/ CallSyncNetwork

FnSpec == FnInit /\ [][FnNext]_vars


(***************************************************************************)
(* One round on a network handed in: the calls of test_run's loop body     *)
(* (lines 260-269) in their order, shuffle_network, the hub pairing of a   *)
(* strategy, sync_network and is_network_consistent.                       *)
(***************************************************************************)
\* ..._sync_first_map_to_others from node k of nodes on, the hub detached:
\* every network and byte_tx it can return, or the panic of a filter
RECURSIVE sync_first_map_to_others(_, _, _, _, _)
sync_first_map_to_others(s, nodes, hub, k, tx) ==
    IF k > Len(nodes)
    THEN {[panicked |-> FALSE, network |-> Append(nodes, hub), byte_tx |-> tx]}
    ELSE LET map1 == nodes[k][1]
             map2 == hub[1]
             panics == s = "bloom" /\ (gen_bloom_panics(map1) \/ gen_bloom_panics(map2))
             outs == IF s = "bloom"
                     THEN {bloom_filter_sync_two_maps(map1, map2, fp1, fp2) :
                               fp1 \in false_positives(map2 \cup map1, map1),
                               fp2 \in false_positives(map1, map2)}
                     ELSE {rehash_filter_sync_two_maps(map1, map2, order1, order2) :
                               order1 \in TwoOrders(map1), order2 \in TwoOrders(map2)}
         IN  IF panics THEN {[panicked |-> TRUE]}
             ELSE UNION {sync_first_map_to_others(
                             s, [nodes EXCEPT ![k][1] = r.map1],
                             [hub EXCEPT ![1] = r.map2], k + 1, tx + r.byte_tx) :
                         r \in outs}

\* what the round leaves when the hub pairing returned paired
round_result(shuffled, paired) ==
    IF paired.panicked
    THEN [panicked |-> TRUE, shuffled |-> shuffled]
    ELSE [panicked |-> FALSE, shuffled |-> shuffled,
          paired |-> paired.network, byte_tx |-> paired.byte_tx,
          network |-> sync_network(paired.network),
          consistent |-> is_network_consistent(sync_network(paired.network))]

\* lines 260-269 on a network of n nodes of m maps: every network of up to
\* MaxNetFact maps, and every consistent network of up to MaxNetFact nodes
\* of up to MaxNetFact maps, the common set being any set of digests (the
\* empty one is what gen_network gives for data_count = 0)
CallRound ==
    /\ pc = "harness"
    /\ call = Idle
    /\ \E s \in {"bloom", "rehash"}, n \in 1..MaxNetFact, m \in 1..MaxNetFact :
       \E net \in (IF n * m <= MaxNetFact
                   THEN [1..n -> [1..m -> SUBSET Digests]]
                   ELSE {[i \in 1..n |-> [j \in 1..m |-> common]] :
                             common \in SUBSET Digests}) :
       \E shuffled \in shuffle_outcomes(net) :
       \E paired \in sync_first_map_to_others(s, Tail(shuffled), shuffled[1], 1, 0) :
           /\ call' = [fn |-> "round", strategy |-> s, network |-> net]
           /\ ret' = round_result(shuffled, paired)
    /\ UNCHANGED <<trial_vars, suite>>

RoundSpec == FnInit /\ [][CallRound]_vars

(***************************************************************************)
(* test_suite (called by bloom_test_suite and by rehash_test_suite): three *)
(* warm-up calls of test_run, then twenty measured ones whose results are  *)
(* pushed on the vectors, then the summary.  A call of test_run runs the   *)
(* steps of the trial above: it generates its own network (line 233) and   *)
(* either panics (an assert of lines 236-251), which unwinds test_suite,   *)
(* or returns (count, byte_tx, elapsed); the elapsed time and the vector   *)
(* sync_time are not modelled.                                             *)
(***************************************************************************)
\* line 292: for _ in 1..=3
WarmupRuns == 3
\* line 303: for _ in 1..=20
TestRuns == 20
\* line 308: bt as f64 / 1024.0 / 1024.0
KiB == 1024

\* lines 327-343 and 283-290: bloom_test_suite or rehash_test_suite hands
\* its reconciler and arguments to test_suite; the first line is printed
\* and the warm-up announced.  long and redrawn are history: the trials so
\* far that took more than one round, and the draws so far that gave a hash
\* drawn before.
SuiteInit ==
    /\ data_count \in 0..SuiteDataCount
    /\ net_fact \in 1..SuiteNetFact
    /\ strategy \in {"bloom", "rehash"}
    /\ network = <<>>
    /\ first_node = <<>>
    /\ idx = 0
    /\ net_tx = 0
    /\ count = 0
    /\ byte_tx = 0
    /\ pc = "suite"
    /\ orig = {}
    /\ gen_flags = [network_consistent |-> FALSE, node_consistent |-> FALSE,
                    largest_map |-> 0]
    /\ rounds = <<>>
    /\ checks = 0
    /\ call = Idle
    /\ ret = Idle
    /\ ledger = NoLedger
    /\ suite = [pc |-> "warmup", i |-> 0, calls |-> 0, long |-> 0, redrawn |-> 0,
                out |-> <<"running with", "warmup">>]

\* lines 293-295 and 304-306, 227-233: the dot is printed and test_run is
\* called;
\* it draws its network.  The model follows the suites in which at most
\* SuiteRedraws draws, all trials together, gave a hash drawn before.
CallTestRun ==
    /\ pc = "suite"
    /\ network' \in gen_network(data_count, net_fact, SuiteRedraws - suite.redrawn)
    /\ first_node' = <<>>
    /\ idx' = 0
    /\ net_tx' = 0
    /\ count' = 0
    /\ byte_tx' = 0
    /\ pc' = "generated"
    /\ orig' = UnionOfNetwork(network')
    /\ gen_flags' = [network_consistent |-> NetworkConsistent(network'),
                     node_consistent |->
                         \E i \in DOMAIN network' : NodeConsistent(network'[i]),
                     largest_map |-> LargestMap(network')]
    /\ rounds' = <<>>
    /\ checks' = 0
    /\ ledger' = NoLedger
    /\ suite' = [suite EXCEPT
                    !.calls = @ + 1,
                    !.out = Append(@, "."),
                    !.redrawn = @ + (data_count * net_fact * net_fact
                                         - Cardinality(UnionOfNetwork(network')))]
    /\ UNCHANGED <<data_count, net_fact, strategy, call, ret>>

\* line 274: test_run returns (count, byte_tx, elapsed); its network is
\* dropped
ReturnFromTestRun ==
    /\ pc = "done"
    /\ pc' = "suite"
    /\ network' = <<>>
    /\ first_node' = <<>>
    /\ idx' = 0
    /\ net_tx' = 0
    /\ orig' = {}
    /\ gen_flags' = [network_consistent |-> FALSE, node_consistent |-> FALSE,
                     largest_map |-> 0]
    /\ rounds' = <<>>
    /\ checks' = 0
    /\ ledger' = NoLedger
    /\ UNCHANGED <<data_count, net_fact, strategy, call, ret>>

\* lines 292-295: the dot, then the call of test_run
WarmupRun ==
    /\ suite.pc = "warmup"
    /\ suite.i < WarmupRuns
    /\ CallTestRun

\* lines 295-296: the call returned, its result is dropped
WarmupReturn ==
    /\ suite.pc = "warmup"
    /\ ReturnFromTestRun
    /\ count' = 0
    /\ byte_tx' = 0
    /\ suite' = [suite EXCEPT !.i = @ + 1,
                              !.long = @ + (IF count > 1 THEN 1 ELSE 0)]

\* lines 297-302: the vectors are created and the test announced
StartTest ==
    /\ pc = "suite"
    /\ suite.pc = "warmup"
    /\ suite.i = WarmupRuns
    /\ suite' = [pc |-> "test", i |-> 0, calls |-> suite.calls,
                 long |-> suite.long, redrawn |-> suite.redrawn,
                 out |-> Append(suite.out, "test"),
                 it_count |-> <<>>, byte_tx |-> <<>>]
    /\ UNCHANGED <<trial_vars, call, ret>>

\* lines 303-306: the dot, then the call of test_run
TestRun ==
    /\ suite.pc = "test"
    /\ suite.i < TestRuns
    /\ CallTestRun

\* a measured iteration that keeps the last result only
TestReturnKeepLast ==
    /\ suite.pc = "test"
    /\ ReturnFromTestRun
    /\ UNCHANGED <<count, byte_tx>>
    /\ suite' = [suite EXCEPT !.i = @ + 1,
                              !.long = @ + (IF count > 1 THEN 1 ELSE 0),
                              !.it_count = <<count>>,
                              !.byte_tx = <<<<byte_tx, KiB * KiB>>>>]

\* lines 306-310: the call returned (it, bt, tt); it and bt / 1024 / 1024
\* are pushed
TestReturn ==
    /\ suite.pc = "test"
    /\ ReturnFromTestRun
    /\ UNCHANGED <<count, byte_tx>>
    /\ suite' = [suite EXCEPT !.i = @ + 1,
                              !.long = @ + (IF count > 1 THEN 1 ELSE 0),
                              !.it_count = Append(@, count),
                              !.byte_tx = Append(@, <<byte_tx, KiB * KiB>>)]

\* the sum of a vector of counts
RECURSIVE SumOf(_)
SumOf(v) == IF v = <<>> THEN 0 ELSE SumOf(SubSeq(v, 1, Len(v) - 1)) + v[Len(v)]

\* lines 311-324: "done.", then it_count is rebound to the mean of the
\* vector (its sum over its length) and the summary line is printed; the
\* other means and the deviations of the stats crate are not modelled
Summary ==
    /\ pc = "suite"
    /\ suite.pc = "test"
    /\ suite.i = TestRuns
    /\ suite' = [suite EXCEPT
                    !.pc = "returned",
                    !.out = @ \o <<"done.", "summary">>,
                    !.it_count = <<SumOf(suite.it_count), Len(suite.it_count)>>]
    /\ UNCHANGED <<trial_vars, call, ret>>

\* the model follows a trial of the suite into its next round: the loop has
\* no ceiling, the model follows a trial for SuiteRounds rounds, and beyond
\* its first round while fewer than SuiteLongTrials trials of the suite have
\* taken more than one
followed_in_suite ==
    /\ count < SuiteRounds
    /\ count = 0 \/ suite.long < SuiteLongTrials

\* lines 257-260 in a trial of the suite
SuiteRoundShuffle ==
    /\ followed_in_suite
    /\ count' = count + 1
    /\ ShuffleStep

\* test_suite and the trials it runs; a panic of a trial (pc = "panicked")
\* unwinds test_suite: nothing more is executed
SuiteNext ==
    \/ WarmupRun
    \/ WarmupReturn
    \/ StartTest
    \/ TestRun
    \/ TestReturn
    \/ Summary
    \/ AssertGenerated
    \/ InitialSyncNode
    \/ AssertConsolidated
    \/ SuiteRoundShuffle
    \/ RemoveHub
    \/ PairBloom
    \/ PairRehash
    \/ PushHub
    \/ SyncNetwork
    \/ CheckConsistent

SuiteSpec == SuiteInit /\ [][SuiteNext]_vars

(***************************************************************************)
(* The claims.                                                             *)
(***************************************************************************)
PairCall == call.fn \in {"bloom_filter_sync_two_maps", "rehash_filter_sync_two_maps"}

PairReturned == PairCall /\ ~ret.panicked

\* C1: for every pairwise reconciliation call that returns, with either
\* strategy and any two input sets A and B, A \cup B after the call equals
\* A \cup B before it, and each side after the call is a superset of that
\* side before it (no item is removed).
C1_PairKeepsUnion ==
    PairReturned =>
        /\ ret.out.map1 \cup ret.out.map2 = call.map1 \cup call.map2
        /\ call.map1 \subseteq ret.out.map1
        /\ call.map2 \subseteq ret.out.map2

\* a bloom call in which both sides received a hash and a false positive
\* kept one back
C1_Witness ==
    /\ call.fn = "bloom_filter_sync_two_maps"
    /\ ~ret.panicked
    /\ ret.out.map1 # call.map1
    /\ ret.out.map2 # call.map2
    /\ ret.out.map1 # ret.out.map2

\* every hash held anywhere in the network, the detached hub included
AllHashes == UnionOfNetwork(network) \cup UnionOfNode(first_node)

\* C2: the union of all hashes of the network is the same in every state of
\* a trial (across the initial sync, shuffle, hub pairing and sync_network),
\* and when the trial has converged every map of every node equals the
\* union of all maps of the generated network.
C2_UnionOfGenerated ==
    pc # "harness" =>
        /\ AllHashes = orig
        /\ pc = "done" =>
               \A i \in DOMAIN network : \A j \in DOMAIN network[i] :
                   network[i][j] = orig

\* a bloom trial of two nodes that converged in its third round on the four
\* hashes of its four maps
C2_Witness ==
    /\ pc = "done"
    /\ strategy = "bloom"
    /\ net_fact = 2
    /\ count = 3
    /\ Cardinality(orig) = 4
    /\ \A i \in DOMAIN network : \A j \in DOMAIN network[i] : network[i][j] = orig

\* C3 as stated: a trial, with either strategy, never runs more than 50
\* rounds.
C3_WithinFiftyRounds == pc # "harness" => count <= 50

\* C3 as amended: a trial with the hash-of-hashes strategy never runs more
\* than 50 rounds: it is never at the head of the loop after 50 rounds.
C3_RehashWithinFiftyRounds ==
    strategy = "rehash" => count <= 50 /\ ~(pc = "loop" /\ count >= 50)

\* a rehash trial of three nodes converged in its second round
C3_Witness ==
    /\ pc = "done"
    /\ strategy = "rehash"
    /\ net_fact = 3
    /\ count = 2


\* the trial has entered the loop
InLoop == pc \in {"loop", "net_sync", "pairing", "sync_network", "check", "done"}

\* the nodes of the network while a hub pairing runs (the detached hub
\* counted last) and when it has returned
NodesOfPairing == IF pc = "pairing" THEN Append(network, first_node) ELSE network

\* the trial has returned with every map equal to the union of the
\* generated network
Converged ==
    /\ pc = "done"
    /\ \A i \in DOMAIN network : \A j \in DOMAIN network[i] : network[i][j] = orig

\* the pairwise call the hub pairing is about to make can return its two
\* maps as it got them: each filter may recognise every hash it is asked
\* about
IdleCallPossible ==
    LET map1 == network[idx][1]
        map2 == first_node[1]
    IN  \E fp1 \in false_positives(map2 \cup map1, map1),
           fp2 \in false_positives(map1, map2) :
            LET r == bloom_filter_sync_two_maps(map1, map2, fp1, fp2)
            IN  r.map1 = map1 /\ r.map2 = map2 /\ r.sent12 = {} /\ r.sent21 = {}

C5_SyncNodeIsUnion ==
    /\ call.fn = "sync_node" =>
           /\ DOMAIN ret.node = DOMAIN call.node
           /\ \A j \in DOMAIN ret.node : ret.node[j] = UnionOfNode(call.node)
           /\ ret.consistent
    /\ call.fn = "sync_network" =>
           /\ DOMAIN ret.network = DOMAIN call.network
           /\ \A i \in DOMAIN ret.network :
                  /\ DOMAIN ret.network[i] = DOMAIN call.network[i]
                  /\ \A j \in DOMAIN ret.network[i] :
                         ret.network[i][j] = UnionOfNode(call.network[i])
                  /\ is_node_consistent(ret.network[i])

\* sync_network on two nodes that were both inconsistent and hold different
\* unions
C5_Witness ==
    /\ call.fn = "sync_network"
    /\ Len(call.network) = 2
    /\ ~is_node_consistent(call.network[1])
    /\ ~is_node_consistent(call.network[2])
    /\ UnionOfNode(call.network[1]) # UnionOfNode(call.network[2])
    /\ ret.network[1][2] = UnionOfNode(call.network[1])
    /\ ret.network[2][1] = UnionOfNode(call.network[2])


RehashCall == call.fn = "rehash_filter_sync_two_maps"

\* the two aggregate digests of the call differ
DigestsDiffer == hash_of_hashes(call.order1) # hash_of_hashes(call.order2)

\* the number of hashes the call inserted on either side
Transmitted ==
    Cardinality(ret.out.map1 \ call.map1) + Cardinality(ret.out.map2 \ call.map2)

\* C6: rehash_filter_sync_two_maps on two maps with identical contents
\* transmits nothing, leaves both maps unchanged and returns 64 bytes, the
\* two digests compared.
C6_EqualMapsCostTwoDigests ==
    (RehashCall /\ call.map1 = call.map2) =>
        /\ ret.out.sent12 = {} /\ ret.out.sent21 = {}
        /\ ret.out.map1 = call.map1 /\ ret.out.map2 = call.map2
        /\ ret.out.byte_tx = 64

\* the operations a round must have executed, in order, at each position
RoundSoFar ==
    CASE pc = "net_sync"     -> <<"shuffle">>
      [] pc = "pairing"      -> <<"shuffle">>
      [] pc = "sync_network" -> <<"shuffle", "net_sync">>
      [] pc = "check"        -> <<"shuffle", "net_sync", "sync_network">>
      [] OTHER               -> <<"shuffle", "net_sync", "sync_network", "check">>

InRound == pc \in {"net_sync", "pairing", "sync_network", "check"}

\* C7: every round executes shuffle, the hub pairing, sync_network and the
\* consistency check in this order; the loop goes on after a check exactly
\* when the check was false and returns at the first check that is true;
\* the count returned is the number of rounds (checks) executed, at least 1.
C7_RoundOrderAndCount ==
    /\ InRound => rounds = RoundSoFar /\ checks = count - 1 /\ count >= 1
    /\ (pc = "loop" /\ count > 0) =>
           rounds = RoundSoFar /\ checks = count /\ ~NetworkConsistent(network)
    /\ (pc = "loop" /\ count = 0) => rounds = <<>> /\ checks = 0
    /\ pc = "done" =>
           /\ rounds = RoundSoFar
           /\ NetworkConsistent(network)
           /\ checks = count
           /\ count >= 1

\* a trial returned from its third round
C7_Witness ==
    /\ pc = "done"
    /\ count = 3
    /\ checks = 3
    /\ rounds = <<"shuffle", "net_sync", "sync_network", "check">>

LoopPositions == {"loop", "net_sync", "pairing", "sync_network", "check", "done"}

\* C8: a trial whose generated network is network-consistent (as for
\* net_fact = 1 or data_count = 0) or has a node-consistent node never
\* reaches the loop, and one whose network is network-consistent after the
\* initial sync of all nodes does not either; a trial panics for no other
\* reason, executes no round when it panics, and otherwise enters the loop
\* with every node node-consistent and the network not network-consistent.
C8_PanicsBeforeLoop ==
    pc # "harness" =>
        /\ (net_fact = 1 \/ data_count = 0) => gen_flags.network_consistent
        /\ (gen_flags.network_consistent \/ gen_flags.node_consistent) =>
               pc \in {"generated", "sync_nodes", "panicked"}
        /\ (pc = "sync_nodes" /\ idx > 1) => ~gen_flags.network_consistent
        /\ (pc = "sync_nodes" /\ idx > Len(network)) => ~gen_flags.node_consistent
        /\ pc = "panicked" =>
               /\ count = 0 /\ checks = 0 /\ rounds = <<>> /\ byte_tx = 0
               /\ \/ gen_flags.network_consistent
                  \/ gen_flags.node_consistent
                  \/ NetworkConsistent(network)
        /\ (pc = "loop" /\ count = 0) =>
               /\ \A i \in DOMAIN network : NodeConsistent(network[i])
               /\ ~NetworkConsistent(network)
        /\ pc \in LoopPositions =>
               ~gen_flags.network_consistent /\ ~gen_flags.node_consistent

\* a trial of two nodes panicked at line 251: no node was consistent when
\* generated, and the network was consistent after the initial sync
C8_Witness ==
    /\ pc = "panicked"
    /\ net_fact = 2
    /\ ~gen_flags.network_consistent
    /\ ~gen_flags.node_consistent
    /\ NetworkConsistent(network)

\* C9 as stated: when the digests differ the call returns 64 bytes, 32 per
\* hash transmitted and 32 per hash of the list of each side.
C9_ListsOfBothSides ==
    (RehashCall /\ DigestsDiffer) =>
        ret.out.byte_tx = 64 + 32 * Transmitted
                          + 32 * (Cardinality(call.map1) + Cardinality(call.map2))

\* C9 as amended: when the digests differ the call returns 64 bytes, 32 per
\* hash transmitted and 32 per hash of map1, the left-hand map, as it was
\* before the call; the list of map2 is not charged.
C9_ListOfMap1Only ==
    (RehashCall /\ DigestsDiffer) =>
        ret.out.byte_tx = 64 + 32 * Transmitted + 32 * Cardinality(call.map1)

\* differing digests, maps of different sizes, a hash sent each way
C9_Witness ==
    /\ RehashCall
    /\ DigestsDiffer
    /\ Cardinality(call.map1) = 1
    /\ Cardinality(call.map2) = 2
    /\ ret.out.map1 # call.map1
    /\ ret.out.map2 # call.map2
    /\ ret.out.byte_tx = 64 + 32 * 3 + 32

BloomReturned == call.fn = "bloom_filter_sync_two_maps" /\ ~ret.panicked

\* C10: bloom_filter_sync_two_maps transmits a hash of one side to the other
\* exactly when the other side's filter, built from that side's map as it
\* was before the call, does not recognise it, and returns 32 bytes per
\* hash transmitted plus, for each filter, 44 bytes and the bytes of its
\* bit array.
C10_BloomTransmitsUnrecognised ==
    BloomReturned =>
        LET bloom1 == gen_bloom_for_map(call.map1, call.fp1)
            bloom2 == gen_bloom_for_map(call.map2, call.fp2)
            to2    == {h \in call.map1 : h \notin bloom2.recognised}
            to1    == {h \in call.map2 : h \notin bloom1.recognised}
        IN  /\ ret.out.sent12 = to2
            /\ ret.out.sent21 = to1
            /\ ret.out.map2 = call.map2 \cup to2
            /\ ret.out.map1 = call.map1 \cup to1
            /\ ret.out.byte_tx = 32 * (Cardinality(to1) + Cardinality(to2))
                                 + (44 + bloom1.bitmap_len)
                                 + (44 + bloom2.bitmap_len)

\* a call that sent a hash each way while a false positive of the second
\* filter kept a hash of map1 back
C10_Witness ==
    /\ BloomReturned
    /\ ret.out.sent12 # {}
    /\ ret.out.sent21 # {}
    /\ (call.map1 \cap call.fp2) # {}
    /\ ret.out.byte_tx = 32 * 2 + (44 + 3) + (44 + 2)

\* rounds whose hub pairing has returned
PairedRounds == IF pc \in {"net_sync", "pairing"} THEN count - 1 ELSE count

\* C11: in every state of a trial, test_run's byte_tx is the sum of the
\* costs returned by all pairwise calls of the hub pairings that have
\* returned, which are net_fact - 1 calls per round; the running hub
\* pairing's byte_tx is the sum of the costs of its calls so far.  Nothing
\* else (generation, the initial sync_node, shuffle, sync_network, the
\* checks) adds to it, so the byte_tx a trial returns is that sum.
C11_BytesAreSumOfPairCosts ==
    pc # "harness" =>
        /\ byte_tx = ledger.paid
        /\ ledger.pairs = PairedRounds * (net_fact - 1)
        /\ pc = "pairing" =>
               /\ net_tx = SumOfCosts(ledger.log)
               /\ Len(ledger.log) = idx - 1

\* a trial of three nodes that returned after two rounds, four pairwise
\* calls charged
C11_Witness ==
    /\ pc = "done"
    /\ net_fact = 3
    /\ count = 2
    /\ ledger.pairs = 4
    /\ byte_tx = ledger.paid
    /\ byte_tx > 0

\* the lines test_suite prints once the measured trials are over
StatisticsPrinted == \E k \in DOMAIN suite.out : suite.out[k] \in {"done.", "summary"}

\* a call of test_run by test_suite is running
TrialRunning == pc # "suite"

\* C12: test_suite calls test_run WarmupRuns = 3 times without keeping the
\* result (the vectors do not exist yet), then TestRuns = 20 times pushing
\* every result: the vectors hold one entry per measured call that
\* returned, the last being the (count, byte_tx) just returned.  Every call
\* starts on a network gen_network has just returned, with count and
\* byte_tx at 0, and no network is left between two calls.  The summary is
\* printed only when all 23 calls have returned, over exactly 20 entries;
\* when a call panics nothing of the statistics has been or will be
\* printed.
C12_ThreeWarmupsTwentyMeasured ==
    suite.pc # "none" =>
        /\ suite.pc = "warmup" =>
               /\ suite.i <= WarmupRuns
               /\ suite.calls = suite.i + (IF TrialRunning THEN 1 ELSE 0)
               /\ suite.calls <= WarmupRuns
               /\ "it_count" \notin DOMAIN suite
               /\ "byte_tx" \notin DOMAIN suite
        /\ suite.pc = "test" =>
               /\ suite.i <= TestRuns
               /\ suite.calls = WarmupRuns + suite.i + (IF TrialRunning THEN 1 ELSE 0)
               /\ suite.calls <= WarmupRuns + TestRuns
               /\ Len(suite.it_count) = suite.i
               /\ Len(suite.byte_tx) = suite.i
               /\ (pc = "suite" /\ suite.i >= 1) =>
                      /\ suite.it_count[suite.i] = count
                      /\ suite.byte_tx[suite.i] = <<byte_tx, KiB * KiB>>
        /\ suite.pc = "returned" =>
               /\ pc = "suite"
               /\ suite.i = TestRuns
               /\ suite.calls = WarmupRuns + TestRuns
               /\ Len(suite.byte_tx) = TestRuns
               /\ suite.it_count[2] = TestRuns
               /\ suite.it_count[1] >= TestRuns
        /\ pc = "generated" =>
               /\ network \in gen_network(data_count, net_fact,
                                          data_count * net_fact * net_fact)
               /\ count = 0
               /\ byte_tx = 0
        /\ pc = "suite" => network = <<>>
        /\ StatisticsPrinted => suite.pc = "returned"
        /\ pc = "panicked" =>
               /\ suite.pc \in {"warmup", "test"}
               /\ ~StatisticsPrinted
               /\ ~ENABLED SuiteNext

\* bloom_test_suite printed its summary over twenty measured trials, one of
\* which took SuiteRounds rounds
C12_Witness ==
    /\ pc = "suite"
    /\ strategy = "bloom"
    /\ suite.pc = "returned"
    /\ StatisticsPrinted
    /\ suite.it_count = <<TestRuns + SuiteRounds - 1, TestRuns>>
    /\ Len(suite.byte_tx) = TestRuns

\* the common set of a converged network
FinalSet == network[1][1]

\* C13 as stated: in every converged trial the final common set holds at
\* least data_count and at most net_fact * net_fact * data_count hashes,
\* whatever generation draws.
C13_SizeBetweenDataCountAndAll ==
    pc = "done" =>
        /\ Cardinality(FinalSet) >= data_count
        /\ Cardinality(FinalSet) <= net_fact * net_fact * data_count

\* C13, amended: in every converged trial the final common set holds at
\* least as many hashes as the largest generated map (data_count when the
\* draws of some map are all distinct) and at most
\* net_fact * net_fact * data_count.
C13_SizeBetweenLargestMapAndAll ==
    /\ pc \notin {"harness", "suite"} => gen_flags.largest_map <= data_count
    /\ pc = "done" =>
           /\ Cardinality(FinalSet) >= gen_flags.largest_map
           /\ Cardinality(FinalSet) <= net_fact * net_fact * data_count

\* a converged trial whose four maps of one hash each were all different:
\* the final set holds net_fact * net_fact * data_count hashes
C13_Witness ==
    /\ pc = "done"
    /\ data_count = 1
    /\ net_fact = 2
    /\ gen_flags.largest_map = data_count
    /\ Cardinality(FinalSet) = net_fact * net_fact * data_count

\* the hub pairing of the current round has returned and nothing has run
\* since
HubPairingReturned == pc = "sync_network"

\* C14: when a hub pairing returns, it has made net_fact - 1 pairwise calls;
\* call k had the first map of node k + 1 of the network it was given as
\* map1 and, as map2, the first map of node 1 (the hub) as the calls before
\* k left it; what it returns is the sum of what the calls returned; and the
\* network is the one it was given rotated left by one node, the hub last,
\* with the first maps as the calls left them.
C14_HubPairsInOrderAndRotates ==
    HubPairingReturned =>
        LET pre == ledger.before
            log == ledger.log
            n == Len(pre)
        IN  /\ n = net_fact
            /\ Len(log) = net_fact - 1
            /\ \A k \in 1..(n - 1) :
                   /\ log[k].left = pre[k + 1][1]
                   /\ log[k].right = IF k = 1 THEN pre[1][1] ELSE log[k - 1].out.map2
                   /\ network[k] = [pre[k + 1] EXCEPT ![1] = log[k].out.map1]
            /\ net_tx = SumOfCosts(log)
            /\ Len(network) = n
            /\ network[n] = [pre[1] EXCEPT ![1] =
                                IF n = 1 THEN pre[1][1] ELSE log[n - 1].out.map2]

\* a hub pairing of three nodes whose second call found the hub's first map
\* already grown by the first call
C14_Witness ==
    /\ HubPairingReturned
    /\ net_fact = 3
    /\ Len(ledger.log) = 2
    /\ ledger.log[2].right # ledger.before[1][1]
    /\ ledger.log[2].right = ledger.log[1].out.map2
    /\ network[3][1] # ledger.before[1][1]

\* C15: when rehash_filter_sync_two_maps is called on two maps of different
\* contents, both maps hold the union of the two when it returns: every hash
\* held by one map only has been inserted into the other.
C15_RehashDifferentMapsBecomeUnion ==
    (RehashCall /\ call.map1 # call.map2) =>
        /\ ret.out.map1 = call.map1 \cup call.map2
        /\ ret.out.map2 = call.map1 \cup call.map2
        /\ ret.out.sent12 = call.map1 \ call.map2
        /\ ret.out.sent21 = call.map2 \ call.map1

\* a call on two maps of two hashes each that share one hash
C15_Witness ==
    /\ RehashCall
    /\ Cardinality(call.map1) = 2
    /\ Cardinality(call.map2) = 2
    /\ Cardinality(call.map1 \cap call.map2) = 1
    /\ ret.out.map1 = ret.out.map2
    /\ Cardinality(ret.out.map1) = 3

\* nodes whose first map holds every hash of the network
FullNodes == {i \in DOMAIN network : network[i][1] = orig}

\* no false positive has kept a hash back so far
ExactSoFar == ledger.last_faulty = 0

\* C16: with exact reconciliation (no false positive has kept a hash back;
\* the hash of hashes is exact as it is) a trial never runs more than
\* net_fact - 1 rounds, whatever the shuffles (the check of round
\* net_fact - 1, if it is reached, finds the network consistent); when the
\* first hub pairing has returned the hub (now last) and the node paired
\* last hold every hash; and after round k at least k + 1 nodes hold every
\* hash (all of them once the network is consistent).
C16_ExactWithinNetFactMinusOneRounds ==
    (InLoop /\ ExactSoFar) =>
        /\ count <= net_fact - 1
        /\ pc = "loop" => count < net_fact - 1
        /\ (HubPairingReturned /\ count = 1) =>
               {net_fact - 1, net_fact} \subseteq FullNodes
        /\ (pc \in {"check", "loop", "done"} /\ count >= 1) =>
               \/ Cardinality(FullNodes) >= count + 1
               \/ Cardinality(FullNodes) = net_fact
        /\ pc = "done" => Cardinality(FullNodes) = net_fact

\* a bloom trial of three nodes that needed its second round: after the
\* first, two of the nodes held every hash
C16_Witness ==
    /\ pc = "loop"
    /\ strategy = "bloom"
    /\ ExactSoFar
    /\ net_fact = 3
    /\ count = 1
    /\ Cardinality(FullNodes) = 2

\* C17: whenever the reconciler is about to run (the round's shuffle is
\* done, the hub pairing not started), all maps of every node hold the same
\* hashes, so the first map of every node holds the union of the node's
\* maps; the same holds before the shuffle.
C17_NodesConsistentWhenReconcilerRuns ==
    (pc \in {"loop", "net_sync"}) =>
        \A i \in DOMAIN network :
            /\ is_node_consistent(network[i])
            /\ NodeConsistent(network[i])
            /\ network[i][1] = UnionOfNode(network[i])

\* the second round of a trial of three nodes is about to reconcile: the
\* first round changed first maps only, and the nodes do not all agree yet
C17_Witness ==
    /\ pc = "net_sync"
    /\ count = 2
    /\ net_fact = 3
    /\ ~NetworkConsistent(network)
    /\ \A i \in DOMAIN network : NodeConsistent(network[i])
    /\ network[1][1] # network[2][1]

\* the part of the returned byte_tx that does not depend on what is sent:
\* the two filters (lines 147-148), or the two hashes of hashes and, when
\* they differ, the hash list of map1 (lines 182 and 186)
FixedCost ==
    IF call.fn = "bloom_filter_sync_two_maps"
    THEN (BLOOM_OVERHEAD + bitmap_len(Cardinality(call.map1)))
             + (BLOOM_OVERHEAD + bitmap_len(Cardinality(call.map2)))
    ELSE HashLen + HashLen
             + (IF DigestsDiffer THEN HashLen * Cardinality(call.map1) ELSE 0)

\* how many hashes the two maps gained in the call
Growth ==
    (Cardinality(ret.out.map1) - Cardinality(call.map1))
        + (Cardinality(ret.out.map2) - Cardinality(call.map2))

\* C18: in a pairwise call of either strategy a hash is sent only to the map
\* that did not hold it when the call began: what map1 sends it held and map2
\* did not, what map2 sends it held and map1 did not (so nothing goes back
\* where it came from), and the returned byte_tx is its fixed part plus 32
\* for every hash one of the maps gained.
C18_ItemsChargedOncePerInsertion ==
    PairReturned =>
        /\ ret.out.sent12 \subseteq call.map1 \ call.map2
        /\ ret.out.sent21 \subseteq call.map2 \ call.map1
        /\ ret.out.map1 = call.map1 \cup ret.out.sent21
        /\ ret.out.map2 = call.map2 \cup ret.out.sent12
        /\ ret.out.byte_tx = FixedCost + HashLen * Growth

\* a call of either strategy in which map1 gained two hashes and map2 one
C18_Witness ==
    /\ PairReturned
    /\ Cardinality(ret.out.map1) - Cardinality(call.map1) = 2
    /\ Cardinality(ret.out.map2) - Cardinality(call.map2) = 1
    /\ ret.out.byte_tx = FixedCost + HashLen * 3

\* C19: while a hub pairing runs and when it has returned, the network (with
\* the detached hub) has net_fact nodes of net_fact maps each, node k being
\* node k + 1 of the network the pairing was given (the hub, node 1, last):
\* its maps at index 1 and above (0-based) are exactly as they were, and its
\* first map holds at least what it held.
C19_HubPairingTouchesFirstMapsOnly ==
    (pc = "pairing" \/ HubPairingReturned) =>
        LET pre == ledger.before
            cur == NodesOfPairing
        IN  /\ Len(pre) = net_fact
            /\ Len(cur) = net_fact
            /\ \A k \in 1..net_fact :
                   LET was == pre[(k % net_fact) + 1]
                   IN  /\ Len(cur[k]) = net_fact
                       /\ Len(was) = net_fact
                       /\ \A j \in 2..net_fact : cur[k][j] = was[j]
                       /\ was[1] \subseteq cur[k][1]

\* a hub pairing of three nodes has returned: every first map grew, every
\* other map is as it was
C19_Witness ==
    /\ HubPairingReturned
    /\ net_fact = 3
    /\ \A k \in 1..3 :
           /\ network[k][1] # ledger.before[(k % 3) + 1][1]
           /\ network[k][2] = ledger.before[(k % 3) + 1][2]
           /\ network[k][3] = ledger.before[(k % 3) + 1][3]

\* the calls of a round were made on a network that is_network_consistent
\* finds consistent
RoundOnConsistent == call.fn = "round" /\ is_network_consistent(call.network)

=============================================================================
